---- MODULE Spec2Model ----
(***************************************************************************)
(* Model of keiimai/python_docker_trial:                                   *)
(*   - my_modules_environment_setting/create_project_folders.py            *)
(*       setup_project_directory over a file system of directories and     *)
(*       regular files and the process working directory;                  *)
(*   - my_modules_data_visualization/my_module_data_visualization.py       *)
(*       the four eda_* functions over a data frame, with the calls they   *)
(*       make to pyplot / seaborn / pandas recorded in order.              *)
(***************************************************************************)
EXTENDS Integers, Sequences, FiniteSets, TLC

VARIABLES dirs, files, cwd, last, prev, ncalls, df, viz

vars == <<dirs, files, cwd, last, prev, ncalls, df, viz>>

None == "<None>"

(***************************************************************************)
(* Bounds                                                                  *)
(***************************************************************************)
MaxCalls == 2

MaxRows == 3

(***************************************************************************)
(* Paths.  A directory or file is an absolute path: the sequence of its    *)
(* components (<<>> is the root).  A path argument is [abs, parts].  A     *)
(* path string, as os.getcwd and os.path.join return it, is the sequence   *)
(* of its tokens, the separator "/" being a token.                         *)
(***************************************************************************)
Root == <<>>

Parent(p) == SubSeq(p, 1, Len(p) - 1)

LastName(p) == p[Len(p)]

IsPrefix(p, q) == Len(p) <= Len(q) /\ SubSeq(q, 1, Len(p)) = p

Ancestors(p) == {SubSeq(p, 1, n) : n \in 0..(Len(p) - 1)}

AbsPath(parts) == [abs |-> TRUE, parts |-> parts]

RelPath(parts) == [abs |-> FALSE, parts |-> parts]

\* How the operating system resolves a path argument from working directory c.
Resolve(c, path) == IF path.abs THEN path.parts ELSE c \o path.parts

exists(d, p) == p \in d \/ p \in files

isdir(d, p) == p \in d

\* os.getcwd(): the absolute path string of the working directory.
RECURSIVE os_getcwd_of(_)
os_getcwd_of(p) ==
    IF Len(p) = 0 THEN <<"/">>
    ELSE IF Len(p) = 1 THEN <<"/", p[1]>>
    ELSE os_getcwd_of(Parent(p)) \o <<"/", LastName(p)>>

os_path_join_naive(a, b) == a \o <<"/", b>>

\* os.path.join(a, b) for a relative b: a separator is inserted unless a is
\* empty or already ends with one.
os_path_join(a, b) ==
    IF Len(a) = 0 THEN <<b>>
    ELSE IF a[Len(a)] = "/" THEN a \o <<b>>
    ELSE a \o <<"/", b>>

(***************************************************************************)
(* os.mkdir and os.makedirs(name, exist_ok=True) on the set d of           *)
(* directories.  fault names a directory the operating system refuses to   *)
(* create (permissions, quota); None refuses nothing.                      *)
(***************************************************************************)
OSErrors == {"FileExistsError", "NotADirectoryError", "FileNotFoundError", "PermissionError"}

mkdirReplace(d, p, fault) ==
    IF Len(p) = 0 \/ p \in files THEN [dirs |-> d, err |-> "FileExistsError", path |-> p]
    ELSE IF Parent(p) \in files THEN [dirs |-> d, err |-> "NotADirectoryError", path |-> p]
    ELSE IF Parent(p) \notin d THEN [dirs |-> d, err |-> "FileNotFoundError", path |-> p]
    ELSE IF p \notin d /\ LastName(p) = fault
         THEN [dirs |-> d, err |-> "PermissionError", path |-> p]
    ELSE [dirs |-> {q \in d : ~IsPrefix(p, q)} \cup {p}, err |-> None, path |-> p]

\* os.mkdir(p): the error the operating system reports, or p created.
mkdir(d, p, fault) ==
    IF Len(p) = 0 \/ p \in d \/ p \in files
    THEN [dirs |-> d, err |-> "FileExistsError", path |-> p]
    ELSE IF Parent(p) \in files THEN [dirs |-> d, err |-> "NotADirectoryError", path |-> p]
    ELSE IF Parent(p) \notin d THEN [dirs |-> d, err |-> "FileNotFoundError", path |-> p]
    ELSE IF LastName(p) = fault THEN [dirs |-> d, err |-> "PermissionError", path |-> p]
    ELSE [dirs |-> d \cup {p}, err |-> None, path |-> p]

\* os.makedirs(p, exist_ok=True): missing ancestors first, then p; an
\* OSError of os.mkdir(p) is swallowed when p is a directory.
RECURSIVE makedirs(_, _, _)
makedirs(d, p, fault) ==
    LET up == IF Len(p) > 0 /\ ~exists(d, Parent(p))
              THEN makedirs(d, Parent(p), fault)
              ELSE [dirs |-> d, err |-> None, path |-> p]
    IN  IF up.err \notin {None, "FileExistsError"} THEN up
        ELSE LET r == mkdir(up.dirs, p, fault)
             IN  IF r.err = None THEN r
                 ELSE IF isdir(up.dirs, p) THEN [dirs |-> up.dirs, err |-> None, path |-> p]
                 ELSE r

\* os.makedirs(path, exist_ok=True) called with working directory c; the
\* empty path names nothing.
os_makedirs(d, c, path, fault) ==
    IF ~path.abs /\ path.parts = <<>>
    THEN [dirs |-> d, err |-> "FileNotFoundError", path |-> c]
    ELSE makedirs(d, Resolve(c, path), fault)

(***************************************************************************)
(* setup_project_directory(base_path)                                      *)
(***************************************************************************)
folders_to_create == <<"01_data", "02_document", "03_output", "04_script">>

\* The relative paths created after the chdir, in order: the four folders,
\* then os.path.join('01_data', 'original_data').
SubPaths ==
    [i \in 1..(Len(folders_to_create) + 1) |->
        IF i <= Len(folders_to_create) THEN RelPath(<<folders_to_create[i]>>)
        ELSE RelPath(<<"01_data", "original_data">>)]

RECURSIVE makeAll(_, _, _, _)
makeAll(d, c, i, fault) ==
    IF i > Len(SubPaths) THEN [dirs |-> d, err |-> None, at |-> 0, path |-> c]
    ELSE LET r == os_makedirs(d, c, SubPaths[i], fault)
         IN  IF r.err # None THEN [dirs |-> r.dirs, err |-> r.err, at |-> i, path |-> r.path]
             ELSE makeAll(r.dirs, c, i + 1, fault)

NoCall ==
    [base |-> None, fault |-> None, cwd0 |-> Root, status |-> "none", err |-> None,
     step |-> 0, failed |-> Root, ret |-> <<>>, made |-> {}]

CallRecord(base, fault, c0, status, err, step, failed, ret, made) ==
    [base |-> base, fault |-> fault, cwd0 |-> c0, status |-> status, err |-> err,
     step |-> step, failed |-> failed, ret |-> ret, made |-> made]

\* The plausible repair that is not in the code: on a failure, remove the
\* project tree again.
SetupOutcomeRollback(d, c, base, fault) ==
    LET r0 == os_makedirs(d, c, base, fault)
        wd == Resolve(c, base)
        r1 == makeAll(r0.dirs, wd, 1, fault)
    IN  IF r0.err # None
        THEN [dirs |-> d, cwd |-> c,
              call |-> CallRecord(base, fault, c, "error", r0.err, 0, r0.path, <<>>, r0.dirs \ d)]
        ELSE IF r1.err # None
        THEN [dirs |-> d, cwd |-> c,
              call |-> CallRecord(base, fault, c, "error", r1.err, r1.at, r1.path,
                                  <<>>, r1.dirs \ d)]
        ELSE [dirs |-> r1.dirs, cwd |-> wd,
              call |-> CallRecord(base, fault, c, "ok", None, 0, Root,
                                  <<os_getcwd_of(wd),
                                    os_path_join(os_getcwd_of(wd), "01_data"),
                                    os_path_join(os_getcwd_of(wd), "03_output")>>,
                                  r1.dirs \ d)]

\* The whole call from directories d and working directory c: the file
\* system and working directory it leaves, and what the caller observes.
\* step is 0 for the base path and i for the i-th of SubPaths.
SetupOutcome(d, c, base, fault) ==
    LET r0 == os_makedirs(d, c, base, fault)
        wd == Resolve(c, base)
        r1 == makeAll(r0.dirs, wd, 1, fault)
    IN  IF r0.err # None
        THEN [dirs |-> r0.dirs, cwd |-> c,
              call |-> CallRecord(base, fault, c, "error", r0.err, 0, r0.path, <<>>, r0.dirs \ d)]
        ELSE IF r1.err # None
        THEN [dirs |-> r1.dirs, cwd |-> wd,
              call |-> CallRecord(base, fault, c, "error", r1.err, r1.at, r1.path,
                                  <<>>, r1.dirs \ d)]
        ELSE [dirs |-> r1.dirs, cwd |-> wd,
              call |-> CallRecord(base, fault, c, "ok", None, 0, Root,
                                  <<os_getcwd_of(wd),
                                    os_path_join(os_getcwd_of(wd), "01_data"),
                                    os_path_join(os_getcwd_of(wd), "03_output")>>,
                                  r1.dirs \ d)]

BasePaths ==
    {AbsPath(<<>>), AbsPath(<<"tmp", "proj1">>), AbsPath(<<"proj1">>),
     RelPath(<<"proj1">>), RelPath(<<"tmp", "proj1">>), RelPath(<<>>)}

Faults == {None, "proj1", "03_output", "original_data"}

FileCandidates == {<<"tmp", "proj1", "03_output">>, <<"proj1">>}

StartDirs == {Root, <<"tmp">>}

setup_project_directory(base, fault) ==
    /\ ncalls < MaxCalls
    /\ LET out == SetupOutcome(dirs, cwd, base, fault)
       IN  /\ dirs' = out.dirs
           /\ cwd' = out.cwd
           /\ last' = out.call
    /\ prev' = last
    /\ ncalls' = ncalls + 1
    /\ UNCHANGED <<files, df, viz>>

(***************************************************************************)
(* Data frames.  A frame is its set of column names and its rows; a row    *)
(* holds a cell per column.  The categorical columns hold a label or NaN,  *)
(* the numeric column a number.                                            *)
(***************************************************************************)
NaN == "<NaN>"

Categorical == {"A", "B"}

Numeric == {"value"}

Row(a, b, v) == [A |-> a, B |-> b, value |-> v]

Frame(cols, rows) == [cols |-> cols, rows |-> rows]

NoFrame == Frame({}, <<>>)

IsNull(row, c) == c \in Categorical /\ row[c] = NaN

Truthy(s) == s # None /\ s # ""

\* variable_labels: None, or a dict from identifiers to display strings.
NoLabels == [none |-> TRUE, map |-> <<>>]

Labels(m) == [none |-> FALSE, map |-> m]

TruthyLabels(vl) == ~vl.none /\ DOMAIN vl.map # {}

\* dict.get(key, default)
Get(vl, key, default) == IF key \in DOMAIN vl.map THEN vl.map[key] ELSE default

LabelRequiredRaw(vl, col) == col

\* variable_labels.get(col, col) if variable_labels else col
LabelRequired(vl, col) == IF TruthyLabels(vl) THEN Get(vl, col, col) ELSE col

\* variable_labels.get(col, col) if variable_labels and col else col
LabelOptional(vl, col) == IF TruthyLabels(vl) /\ Truthy(col) THEN Get(vl, col, col) ELSE col

(***************************************************************************)
(* The column checks that open each function: the required columns in      *)
(* order, then the optional column when it is given and not empty.  The    *)
(* result is the position of the first check that fails, 0 when none does. *)
(***************************************************************************)
MissingColumnRequiredOnly(columns, required, optional) ==
    IF \E i \in 1..Len(required) : required[i] \notin columns
    THEN CHOOSE i \in 1..Len(required) :
            /\ required[i] \notin columns
            /\ \A j \in 1..(i - 1) : required[j] \in columns
    ELSE 0

MissingColumnOptionalFirst(columns, required, optional) ==
    IF Truthy(optional) /\ optional \notin columns THEN Len(required) + 1
    ELSE MissingColumnRequiredOnly(columns, required, optional)

MissingColumn(columns, required, optional) ==
    IF \E i \in 1..Len(required) : required[i] \notin columns
    THEN CHOOSE i \in 1..Len(required) :
            /\ required[i] \notin columns
            /\ \A j \in 1..(i - 1) : required[j] \in columns
    ELSE IF Truthy(optional) /\ optional \notin columns THEN Len(required) + 1
    ELSE 0

(***************************************************************************)
(* The library calls.                                                      *)
(***************************************************************************)
Idx(frame) == 1..Len(frame.rows)

RECURSIVE SumOver(_, _, _)
SumOver(frame, S, c) ==
    IF S = {} THEN 0
    ELSE LET i == CHOOSE k \in S : TRUE
         IN  frame.rows[i][c] + SumOver(frame, S \ {i}, c)

\* A mean kept exact: the sum and the number of values it is over.
Mean(frame, S, c) == [sum |-> SumOver(frame, S, c), n |-> Cardinality(S)]

KnownAggs == {"count", "mean"}

\* The rows pandas groups: those whose two keys are both not null.
Grouped(frame, c1, c2) ==
    {i \in Idx(frame) : ~IsNull(frame.rows[i], c1) /\ ~IsNull(frame.rows[i], c2)}

Cell(frame, c1, c2, a, b) ==
    {i \in Grouped(frame, c1, c2) : frame.rows[i][c1] = a /\ frame.rows[i][c2] = b}

Table(index, columns, cell) == [index |-> index, columns |-> columns, cell |-> cell]

NoTable == Table({}, {}, <<>>)

pd_crosstab_keep_null(frame, c1, c2) ==
    LET index == {frame.rows[i][c1] : i \in Idx(frame)}
        columns == {frame.rows[i][c2] : i \in Idx(frame)}
    IN  Table(index, columns,
              [k \in index \X columns |->
                  Cardinality({i \in Idx(frame) :
                      frame.rows[i][c1] = k[1] /\ frame.rows[i][c2] = k[2]})])

\* pd.crosstab(df[c1], df[c2]): the frequency table.  Rows with a null key
\* are dropped; the labels are the values left; a pair never seen counts 0.
pd_crosstab(frame, c1, c2) ==
    LET G == Grouped(frame, c1, c2)
        index == {frame.rows[i][c1] : i \in G}
        columns == {frame.rows[i][c2] : i \in G}
    IN  Table(index, columns,
              [k \in index \X columns |-> Cardinality(Cell(frame, c1, c2, k[1], k[2]))])

\* pd.crosstab(df[c1], df[c2], values=df[v], aggfunc=agg): the error pandas
\* raises, or the table of aggregates; a pair never seen is NaN.
pd_crosstab_values(frame, c1, c2, v, agg) ==
    IF agg \notin KnownAggs THEN [err |-> "AttributeError", table |-> NoTable]
    ELSE IF agg = "mean" /\ v \notin Numeric THEN [err |-> "TypeError", table |-> NoTable]
    ELSE LET G == Grouped(frame, c1, c2)
             index == {frame.rows[i][c1] : i \in G}
             columns == {frame.rows[i][c2] : i \in G}
             cell(a, b) ==
                 LET S == {i \in Cell(frame, c1, c2, a, b) : ~IsNull(frame.rows[i], v)}
                 IN  IF Cell(frame, c1, c2, a, b) = {} \/ (agg = "mean" /\ S = {}) THEN NaN
                     ELSE IF agg = "count" THEN Cardinality(S)
                     ELSE Mean(frame, S, v)
         IN  [err |-> None,
              table |-> Table(index, columns, [k \in index \X columns |-> cell(k[1], k[2])])]

\* seaborn looks a given column name up in the data and raises when it is
\* not there; None is no name.
SnsAccepts(frame, names) == \A c \in names : c = None \/ c \in frame.cols

\* sns.barplot(data, x, y, hue) with the default estimator, the mean: one bar
\* per category of x (per category and hue level when hue is given).
sns_barplot(frame, x, y, hue) ==
    IF ~SnsAccepts(frame, {x, y, hue}) THEN [err |-> "ValueError", bars |-> <<>>]
    ELSE IF y \notin Numeric THEN [err |-> "TypeError", bars |-> <<>>]
    ELSE LET G == {i \in Idx(frame) : ~IsNull(frame.rows[i], x)}
             cats == {frame.rows[i][x] : i \in G}
         IN  IF hue = None
             THEN [err |-> None,
                   bars |-> [a \in cats |-> Mean(frame, {i \in G : frame.rows[i][x] = a}, y)]]
             ELSE LET H == {i \in G : ~IsNull(frame.rows[i], hue)}
                      keys == {<<frame.rows[i][x], frame.rows[i][hue]>> : i \in H}
                  IN  [err |-> None,
                       bars |-> [k \in keys |->
                           Mean(frame, {i \in H : frame.rows[i][x] = k[1]
                                                  /\ frame.rows[i][hue] = k[2]}, y)]]

(***************************************************************************)
(* What a call of one of the four functions leaves to observe: its         *)
(* arguments, the error it raised and where, the pyplot / seaborn calls    *)
(* it made in order, the display labels it derived, its title, the table   *)
(* it built and the colorbar label.                                        *)
(***************************************************************************)
NoOpts == [kind |-> None, reg_line |-> FALSE, agg_func |-> None]

VizRecord(fn, cols, vl, opts, err, errAt, errMsg, events, labels, title, table, cbar) ==
    [fn |-> fn, cols |-> cols, vl |-> vl, opts |-> opts, err |-> err, errAt |-> errAt,
     errMsg |-> errMsg, events |-> events, labels |-> labels, title |-> title,
     table |-> table, cbar |-> cbar]

NoViz == VizRecord(None, <<>>, NoLabels, NoOpts, None, None, <<>>, <<>>, <<>>, <<>>, NoTable, None)

\* raise ValueError(f"... '{col}' ..."): the kind of column the message
\* speaks of, and the column it names.
Raised(fn, cols, vl, opts, kind, col) ==
    VizRecord(fn, cols, vl, opts, "ValueError", "validate", <<kind, col>>,
              <<>>, <<>>, <<>>, NoTable, None)

InitDir ==
    /\ files \in SUBSET FileCandidates
    /\ dirs = StartDirs \cup UNION {Ancestors(f) : f \in files}
    /\ cwd \in StartDirs
    /\ last = NoCall
    /\ prev = NoCall
    /\ ncalls = 0
    /\ df = NoFrame
    /\ viz = NoViz

NextDir == \E base \in BasePaths, fault \in Faults : setup_project_directory(base, fault)

SpecDir == InitDir /\ [][NextDir]_vars

(***************************************************************************)
(* eda_scatter_plot: column checks, display labels, sns.jointplot, the     *)
(* regression overlay, the title, plt.show.                                *)
(***************************************************************************)
\* sns.jointplot(data, x, y, hue, kind): the error it raises, or None.  It
\* looks the given names up in the data and supports no hue with kind 'reg'.
sns_jointplot(frame, x, y, hue, kind) ==
    IF hue # None /\ kind = "reg" THEN "ValueError"
    ELSE IF ~SnsAccepts(frame, {x, y, hue}) THEN "ValueError"
    ELSE None

RegOverlayWheneverAsked(kind, reg_line) == IF reg_line THEN <<"regplot">> ELSE <<>>

\* if reg_line and kind != 'reg': sns.regplot(..., ax=g.ax_joint, ...)
RegOverlay(kind, reg_line) == IF reg_line /\ kind # "reg" THEN <<"regplot">> ELSE <<>>

ScatterPlot(frame, x_col, y_col, hue_feature, kind, reg_line, variable_labels) ==
    LET fn == "eda_scatter_plot"
        cols == <<x_col, y_col, hue_feature>>
        opts == [kind |-> kind, reg_line |-> reg_line, agg_func |-> None]
        m == MissingColumn(frame.cols, <<x_col, y_col>>, hue_feature)
        display_x_col == LabelRequired(variable_labels, x_col)
        display_y_col == LabelRequired(variable_labels, y_col)
        display_hue_feature == LabelOptional(variable_labels, hue_feature)
        labels == <<display_x_col, display_y_col, display_hue_feature>>
        title == <<"Joint Plot of ", display_x_col, " vs ", display_y_col,
                   " (Hue by ", display_hue_feature, ")">>
        overlay == RegOverlay(kind, reg_line)
    IN  IF m # 0
        THEN Raised(fn, cols, variable_labels, opts,
                    IF m <= 2 THEN "column" ELSE "hue column", cols[m])
        ELSE IF sns_jointplot(frame, x_col, y_col, hue_feature, kind) # None
        THEN VizRecord(fn, cols, variable_labels, opts, "ValueError", "jointplot", <<>>,
                       <<"jointplot">>, labels, <<>>, NoTable, None)
        ELSE VizRecord(fn, cols, variable_labels, opts, None, None, <<>>,
                       <<"jointplot">> \o overlay \o <<"suptitle", "tight_layout", "show">>,
                       labels, title, NoTable, None)

(***************************************************************************)
(* eda_violin_plot: column checks, plt.figure, display labels,             *)
(* sns.violinplot by hue_feature or single, the title, plt.show.           *)
(***************************************************************************)
ViolinPlot(frame, feature_col, hue_feature, variable_labels) ==
    LET fn == "eda_violin_plot"
        cols == <<feature_col, hue_feature>>
        m == MissingColumn(frame.cols, <<feature_col>>, hue_feature)
        display_feature_col == LabelRequired(variable_labels, feature_col)
        display_hue_feature == LabelOptional(variable_labels, hue_feature)
        labels == <<display_feature_col, display_hue_feature>>
        default_title ==
            IF Truthy(hue_feature)
            THEN <<"Violin Plot of ", display_feature_col, " by ", display_hue_feature>>
            ELSE <<"Violin Plot of ", display_feature_col>>
    IN  IF m # 0
        THEN Raised(fn, cols, variable_labels, NoOpts,
                    IF m <= 1 THEN "column" ELSE "hue column", cols[m])
        ELSE VizRecord(fn, cols, variable_labels, NoOpts, None, None, <<>>,
                       <<"figure", "violinplot", "set_title", "tight_layout", "show">>,
                       labels, default_title, NoTable, None)

(***************************************************************************)
(* eda_bar_plot: column checks, plt.figure, display labels, sns.barplot,   *)
(* the title, plt.show.                                                    *)
(***************************************************************************)
BarPlotSwapped(frame, categorical_col, feature_col, hue_feature) ==
    sns_barplot(frame, feature_col, categorical_col, hue_feature)

\* sns.barplot(data=df, x=categorical_col, y=feature_col, hue=hue_feature, ...)
BarPlotBars(frame, categorical_col, feature_col, hue_feature) ==
    sns_barplot(frame, categorical_col, feature_col, hue_feature)

BarPlot(frame, categorical_col, feature_col, hue_feature, variable_labels) ==
    LET fn == "eda_bar_plot"
        cols == <<categorical_col, feature_col, hue_feature>>
        m == MissingColumn(frame.cols, <<categorical_col, feature_col>>, hue_feature)
        display_categorical_col == LabelRequired(variable_labels, categorical_col)
        display_feature_col == LabelRequired(variable_labels, feature_col)
        display_hue_feature == LabelOptional(variable_labels, hue_feature)
        labels == <<display_categorical_col, display_feature_col, display_hue_feature>>
        ax == BarPlotBars(frame, categorical_col, feature_col, hue_feature)
        default_title ==
            <<"Mean ", display_feature_col, " by ", display_categorical_col>>
            \o (IF Truthy(display_hue_feature)
                THEN <<" (Hue by ", display_hue_feature, ")">> ELSE <<>>)
    IN  IF m # 0
        THEN Raised(fn, cols, variable_labels, NoOpts,
                    CASE m = 1 -> "categorical column"
                      [] m = 2 -> "feature column"
                      [] OTHER -> "hue column", cols[m])
        ELSE IF ax.err # None
        THEN VizRecord(fn, cols, variable_labels, NoOpts, ax.err, "barplot", <<>>,
                       <<"figure", "barplot">>, labels, <<>>, NoTable, None)
        ELSE VizRecord(fn, cols, variable_labels, NoOpts, None, None, <<>>,
                       <<"figure", "barplot", "set_title", "tight_layout", "show">>,
                       labels, default_title, ax.bars, None)

(***************************************************************************)
(* eda_heatmap_crosstab: column checks, plt.figure, display labels,        *)
(* pd.crosstab, sns.heatmap, the title, the colorbar label, plt.show.      *)
(***************************************************************************)
\* The cross-tabulation step: by value_col and agg_func when value_col is
\* given and not empty, of frequencies otherwise.
Crosstab(frame, categorical_col1, categorical_col2, value_col, agg_func) ==
    IF Truthy(value_col)
    THEN pd_crosstab_values(frame, categorical_col1, categorical_col2, value_col, agg_func)
    ELSE [err |-> None, table |-> pd_crosstab(frame, categorical_col1, categorical_col2)]

\* cbar_kws={'label': ...} as passed to sns.heatmap
CbarKwsLabel(value_col, display_value_col, agg_func) ==
    IF Truthy(value_col)
    THEN <<IF Truthy(display_value_col) THEN display_value_col ELSE "Count",
           " (", agg_func, ")">>
    ELSE <<"Count">>

CbarKeepLabel(created) == created

\* cbar.set_label('Count', ...): the label the colorbar has when shown
CbarSetLabel(created) == <<"Count">>

HeatmapCrosstab(frame, categorical_col1, categorical_col2, value_col, agg_func, variable_labels) ==
    LET fn == "eda_heatmap_crosstab"
        cols == <<categorical_col1, categorical_col2, value_col>>
        opts == [kind |-> None, reg_line |-> FALSE, agg_func |-> agg_func]
        m == MissingColumn(frame.cols, <<categorical_col1, categorical_col2>>, value_col)
        display_categorical_col1 == LabelRequired(variable_labels, categorical_col1)
        display_categorical_col2 == LabelRequired(variable_labels, categorical_col2)
        display_value_col == LabelOptional(variable_labels, value_col)
        labels == <<display_categorical_col1, display_categorical_col2, display_value_col>>
        crosstab_df == Crosstab(frame, categorical_col1, categorical_col2, value_col, agg_func)
        created == CbarKwsLabel(value_col, display_value_col, agg_func)
        default_title ==
            IF Truthy(value_col)
            THEN <<display_value_col, " (", agg_func, ") by ", display_categorical_col1,
                   " and ", display_categorical_col2>>
            ELSE <<"Count by ", display_categorical_col1, " and ", display_categorical_col2>>
    IN  IF m # 0
        THEN Raised(fn, cols, variable_labels, opts,
                    IF m <= 2 THEN "categorical column" ELSE "value column", cols[m])
        ELSE IF crosstab_df.err # None
        THEN VizRecord(fn, cols, variable_labels, opts, crosstab_df.err, "crosstab", <<>>,
                       <<"figure">>, labels, <<>>, NoTable, None)
        ELSE IF crosstab_df.table.index = {}
        THEN VizRecord(fn, cols, variable_labels, opts, "ValueError", "heatmap", <<>>,
                       <<"figure", "heatmap">>, labels, <<>>, crosstab_df.table, None)
        ELSE VizRecord(fn, cols, variable_labels, opts, None, None, <<>>,
                       <<"figure", "heatmap", "set_title", "set_label", "tight_layout",
                         "show">>,
                       labels, default_title, crosstab_df.table, CbarSetLabel(created))

(***************************************************************************)
(* The calls as actions.  A call is observed in viz until the notebook     *)
(* cell that made it is left.                                              *)
(***************************************************************************)
eda_scatter_plot(x_col, y_col, hue_feature, kind, reg_line, variable_labels) ==
    /\ viz.fn = None
    /\ viz' = ScatterPlot(df, x_col, y_col, hue_feature, kind, reg_line, variable_labels)
    /\ UNCHANGED <<dirs, files, cwd, last, prev, ncalls, df>>

eda_violin_plot(feature_col, hue_feature, variable_labels) ==
    /\ viz.fn = None
    /\ viz' = ViolinPlot(df, feature_col, hue_feature, variable_labels)
    /\ UNCHANGED <<dirs, files, cwd, last, prev, ncalls, df>>

eda_bar_plot(categorical_col, feature_col, hue_feature, variable_labels) ==
    /\ viz.fn = None
    /\ viz' = BarPlot(df, categorical_col, feature_col, hue_feature, variable_labels)
    /\ UNCHANGED <<dirs, files, cwd, last, prev, ncalls, df>>

eda_heatmap_crosstab(categorical_col1, categorical_col2, value_col, agg_func, variable_labels) ==
    /\ viz.fn = None
    /\ viz' = HeatmapCrosstab(df, categorical_col1, categorical_col2, value_col, agg_func,
                              variable_labels)
    /\ UNCHANGED <<dirs, files, cwd, last, prev, ncalls, df>>

NextCell ==
    /\ viz.fn # None
    /\ viz' = NoViz
    /\ UNCHANGED <<dirs, files, cwd, last, prev, ncalls, df>>

(***************************************************************************)
(* Calls with any column names, on a few frames                            *)
(***************************************************************************)
Names == {"A", "B", "value", "zz", ""}

OptionalNames == Names \cup {None}

LabelMaps ==
    {NoLabels, Labels(<<>>), Labels([k \in {"A"} |-> "Alpha"]),
     Labels([k \in {"", "value", "zz"} |->
                IF k = "" THEN "Blank" ELSE IF k = "value" THEN "Val" ELSE "Zed"])}

Kinds == {"scatter", "kde", "reg"}

AggFuncs == {"count", "mean", "median_of_medians"}

ExampleRows == <<Row("x", "p", 10), Row("x", "q", 20), Row("y", NaN, 30)>>

VizFrames ==
    {Frame({"A", "B", "value"}, ExampleRows), Frame({"A", "B"}, ExampleRows),
     Frame({"A", "B", "value"}, <<>>)}

InitNoDir ==
    /\ files = {}
    /\ dirs = StartDirs
    /\ cwd = Root
    /\ last = NoCall
    /\ prev = NoCall
    /\ ncalls = 0

InitViz ==
    /\ InitNoDir
    /\ df \in VizFrames
    /\ viz = NoViz

NextViz ==
    \/ \E feature \in Names, hue \in OptionalNames, vl \in LabelMaps :
            eda_violin_plot(feature, hue, vl)
    \/ \E x \in Names, y \in Names, hue \in OptionalNames, kind \in Kinds,
          reg_line \in BOOLEAN, vl \in LabelMaps :
            eda_scatter_plot(x, y, hue, kind, reg_line, vl)
    \/ \E cat \in Names, feature \in Names, hue \in OptionalNames, vl \in LabelMaps :
            eda_bar_plot(cat, feature, hue, vl)
    \/ \E c1 \in Names, c2 \in Names, value \in OptionalNames, agg \in AggFuncs,
          vl \in LabelMaps :
            eda_heatmap_crosstab(c1, c2, value, agg, vl)
    \/ NextCell

SpecViz == InitViz /\ [][NextViz]_vars

(***************************************************************************)
(* Calls with the columns of the frame, on every frame of up to MaxRows    *)
(* rows that varies the two categorical columns or the first and the       *)
(* numeric one                                                             *)
(***************************************************************************)
RowsAB == {Row(a, b, 10) : a \in {"x", "y", NaN}, b \in {"p", "q", NaN}}

RowsAV == {Row(a, "p", v) : a \in {"x", "y", NaN}, v \in {10, 20, 30}}

SeqsUpTo(S, n) == UNION {[1..k -> S] : k \in 0..n}

AggFrames ==
    {Frame({"A", "B", "value"}, rows) :
        rows \in SeqsUpTo(RowsAB, MaxRows) \cup SeqsUpTo(RowsAV, MaxRows)}

InitAgg ==
    /\ InitNoDir
    /\ df \in AggFrames
    /\ viz = NoViz

NextAgg ==
    \/ \E cat \in Categorical, hue \in {None, "B"} :
            eda_bar_plot(cat, "value", hue, NoLabels)
    \/ \E value \in {None, "value"}, agg \in KnownAggs :
            eda_heatmap_crosstab("A", "B", value, agg, NoLabels)
    \/ NextCell

SpecAgg == InitAgg /\ [][NextAgg]_vars

(***************************************************************************)
(* Properties of setup_project_directory                                   *)
(***************************************************************************)
\* The path string of an absolute path, written out token by token.
PathString(p) ==
    IF Len(p) = 0 THEN <<"/">>
    ELSE [i \in 1..(2 * Len(p)) |-> IF i % 2 = 1 THEN "/" ELSE p[i \div 2]]

Called == last.status # "none"

\* The absolute path the last call's base path named when it was made.
LastBase == Resolve(last.cwd0, last.base)

\* The directories a successful call leaves under the absolute path r.
Layout(r) ==
    {r, r \o <<"01_data">>, r \o <<"02_document">>, r \o <<"03_output">>,
     r \o <<"04_script">>, r \o <<"01_data", "original_data">>}

\* C2: two successive calls with the same base path, the first successful
\* and neither hit by a refusal of the operating system: the second raises
\* no error and returns the same three path strings as the first.
C2_SecondCallSame ==
    (ncalls >= 2 /\ prev.status = "ok" /\ prev.fault = None /\ last.fault = None
        /\ last.base = prev.base)
    => (last.status = "ok" /\ last.ret = prev.ret)

\* C3: after a successful call the six directories of the layout exist, the
\* working directory is the base path, and the returned triple is the path
\* strings of base, base/01_data and base/03_output, base resolved to an
\* absolute path; base /tmp/proj1 returns input path /tmp/proj1/01_data.
C3_SuccessfulLayout ==
    (Called /\ last.status = "ok")
    => /\ Layout(LastBase) \subseteq dirs
       /\ cwd = LastBase
       /\ last.ret = <<PathString(LastBase),
                       PathString(LastBase \o <<"01_data">>),
                       PathString(LastBase \o <<"03_output">>)>>
       /\ (last.base = AbsPath(<<"tmp", "proj1">>)
            => last.ret[2] = <<"/", "tmp", "/", "proj1", "/", "01_data">>)

C3_Witness ==
    /\ Called /\ last.status = "ok"
    /\ last.base = AbsPath(<<"tmp", "proj1">>)
    /\ <<"tmp", "proj1", "01_data", "original_data">> \in last.made
    /\ <<"tmp", "proj1", "01_data", "original_data">> \in dirs

\* C4: a call, succeeding or failing, removes no directory and replaces
\* none: the directories only grow and the regular files stay as they are.
C4_DirsOnlyGrow == [][dirs \subseteq dirs' /\ files' = files]_vars

\* A second call on an existing project tree that the operating system
\* would refuse to create anew: every directory is still there.
C4_Witness ==
    /\ ncalls >= 2 /\ prev.status = "ok" /\ last.status = "ok"
    /\ last.fault = "original_data" /\ last.made = {}
    /\ LastBase = Resolve(prev.cwd0, prev.base)
    /\ Layout(LastBase) \subseteq dirs

\* The error os.mkdir reports for path p under the refusal f.
MkdirError(p, f) ==
    IF p \in files THEN "FileExistsError"
    ELSE IF Len(p) > 0 /\ Parent(p) \in files THEN "NotADirectoryError"
    ELSE IF Len(p) > 0 /\ LastName(p) = f THEN "PermissionError"
    ELSE "FileNotFoundError"

\* C5: a directory creation that fails partway makes the call fail with the
\* error of the failing os.mkdir, no triple is returned, and every directory
\* created before the failure (the base path, the sub-directories before
\* the failing one) is still on disk.
C5_PartialFailure ==
    Called =>
      /\ last.status = "error" =>
           /\ last.ret = <<>>
           /\ last.err \in OSErrors
           /\ last.err = IF last.base = RelPath(<<>>) THEN "FileNotFoundError"
                         ELSE MkdirError(last.failed, last.fault)
           /\ last.made \subseteq dirs
           /\ last.step >= 1 =>
                /\ LastBase \in dirs
                /\ cwd = LastBase
                /\ \A j \in 1..(last.step - 1) : Resolve(LastBase, SubPaths[j]) \in dirs
      /\ (\E j \in 1..Len(SubPaths) : Resolve(LastBase, SubPaths[j]) \in files)
           => last.status = "error"

\* The third sub-directory is refused after the call created the base path
\* and the first two.
C5_Witness ==
    /\ Called /\ last.status = "error" /\ last.step = 3
    /\ last.err = "PermissionError"
    /\ {LastBase, LastBase \o <<"01_data">>, LastBase \o <<"02_document">>} \subseteq last.made
    /\ LastBase \o <<"02_document">> \in dirs

(***************************************************************************)
(* Properties of the visualization functions                               *)
(***************************************************************************)
VizCalled == viz.fn # None

\* The column-name arguments of the observed call that name no column.
Absent == {i \in 1..Len(viz.cols) : viz.cols[i] # None /\ viz.cols[i] \notin df.cols}

\* Of those, the ones that are a required argument or a non-empty optional one.
AbsentNonEmpty == {i \in Absent : i < Len(viz.cols) \/ viz.cols[i] # ""}

MissingColumnRaised ==
    viz.err = "ValueError" /\ viz.errAt = "validate" /\ viz.events = <<>>

\* C1 as stated: a call of any of the four functions with a column-name
\* argument, required or optional, that is no column of the dataset raises
\* the missing-column error before any rendering side effect.
C1_AbsentColumnRaises == (VizCalled /\ Absent # {}) => MissingColumnRaised

\* C1 as amended: the same for every required argument and every optional
\* argument that is not the empty string.
C1_NonEmptyAbsentColumnRaises == (VizCalled /\ AbsentNonEmpty # {}) => MissingColumnRaised

C1_Witness ==
    /\ viz.fn = "eda_heatmap_crosstab"
    /\ viz.cols = <<"A", "B", "zz">>
    /\ "zz" \notin df.cols
    /\ MissingColumnRaised

\* The label the map gives an identifier: its value when it is a key, the
\* identifier otherwise.
MapLabel(vl, id) == IF id \in DOMAIN vl.map THEN vl.map[id] ELSE id

\* C6 as stated: every display label a function derives is the map's value
\* for the identifier when the identifier is a key of the map, and the
\* identifier itself otherwise, for a map that is None, empty or partial.
C6_LabelIsMapValue ==
    VizCalled =>
        \A i \in 1..Len(viz.labels) : viz.labels[i] = MapLabel(viz.vl, viz.cols[i])

\* C6 as amended: so it is for the required identifiers and for an optional
\* identifier that is given and not empty; an optional identifier that is
\* None or empty resolves to itself whatever the map holds.
C6_LabelIsMapValueUnlessEmpty ==
    VizCalled =>
        \A i \in 1..Len(viz.labels) :
            viz.labels[i] = IF i < Len(viz.cols) \/ Truthy(viz.cols[i])
                            THEN MapLabel(viz.vl, viz.cols[i])
                            ELSE viz.cols[i]

C6_Witness ==
    /\ viz.fn = "eda_scatter_plot"
    /\ viz.vl = Labels([k \in {"", "value", "zz"} |->
                           IF k = "" THEN "Blank" ELSE IF k = "value" THEN "Val" ELSE "Zed"])
    /\ viz.cols = <<"A", "value", "">>
    /\ viz.labels = <<"A", "Val", "">>

\* C8: the missing-column error names a column that is absent from the
\* dataset, and of several absent ones the first in the check order
\* (required columns in argument order, then the optional column).
C8_ErrorNamesFirstAbsent ==
    (VizCalled /\ viz.errAt = "validate") =>
        /\ Absent # {}
        /\ viz.errMsg[2] \notin df.cols
        /\ \E i \in Absent : /\ viz.errMsg[2] = viz.cols[i]
                             /\ \A j \in Absent : i <= j

C8_Witness ==
    /\ viz.fn = "eda_bar_plot"
    /\ viz.cols = <<"A", "", "zz">>
    /\ viz.errAt = "validate"
    /\ viz.errMsg = <<"feature column", "">>

\* C10: eda_heatmap_crosstab with a value column of the dataset and an
\* aggregation name pandas does not know: the column checks pass, the error
\* is raised at the cross-tabulation, no heatmap is drawn or shown, and the
\* call leaves no partial chart, that is, no rendering call was made.
C10_UnknownAggLeavesNoChart ==
    (/\ viz.fn = "eda_heatmap_crosstab"
     /\ Absent = {}
     /\ Truthy(viz.cols[3])
     /\ viz.opts.agg_func \notin KnownAggs)
    => /\ viz.err # None
       /\ viz.errAt = "crosstab"
       /\ \A k \in 1..Len(viz.events) : viz.events[k] \notin {"heatmap", "show"}
       /\ viz.events = <<>>

\* The places of the call named e in the pyplot / seaborn calls observed.
Places(e) == {k \in 1..Len(viz.events) : viz.events[k] = e}

Returned == VizCalled /\ viz.err = None

\* C11: when eda_heatmap_crosstab returns, the colorbar label of the heatmap
\* shown is the literal "Count" for every input, also when a value column
\* and an aggregation function are given: the label passed at the creation
\* of the heatmap is overwritten before plt.show.
C11_ColorbarLabelIsCount ==
    (viz.fn = "eda_heatmap_crosstab" /\ Returned) =>
        /\ viz.cbar = <<"Count">>
        /\ \E h \in Places("heatmap"), l \in Places("set_label"), w \in Places("show") :
              h < l /\ l < w

C11_Witness ==
    /\ viz.fn = "eda_heatmap_crosstab" /\ Returned
    /\ viz.cols = <<"A", "B", "value">>
    /\ viz.opts.agg_func = "mean"
    /\ CbarKwsLabel(viz.cols[3], viz.labels[3], viz.opts.agg_func) = <<"Val", " (", "mean", ")">>
    /\ viz.cbar = <<"Count">>

\* C12: eda_scatter_plot makes the regression overlay call only when
\* reg_line is true and kind is not 'reg', then once and after the call of
\* sns.jointplot; and whenever sns.jointplot has returned and reg_line is
\* true and kind is not 'reg', it makes the overlay call.
C12_OverlayIffAskedAndNotReg ==
    viz.fn = "eda_scatter_plot" =>
        /\ Places("regplot") # {} => (viz.opts.reg_line /\ viz.opts.kind # "reg")
        /\ Cardinality(Places("regplot")) <= 1
        /\ \A r \in Places("regplot") : \E j \in Places("jointplot") : j < r
        /\ (viz.errAt \notin {"validate", "jointplot"}
                /\ viz.opts.reg_line /\ viz.opts.kind # "reg")
             => Places("regplot") # {}

C12_Witness ==
    /\ viz.fn = "eda_scatter_plot" /\ Returned
    /\ viz.opts = [kind |-> "kde", reg_line |-> TRUE, agg_func |-> None]
    /\ viz.events = <<"jointplot", "regplot", "suptitle", "tight_layout", "show">>

(***************************************************************************)
(* Properties of the aggregations                                          *)
(***************************************************************************)
\* The values, not null, that column c takes in the rows S.
ValuesIn(S, c) == {df.rows[i][c] : i \in {k \in S : ~IsNull(df.rows[k], c)}}

BothGiven == {i \in 1..Len(df.rows) : df.rows[i].A # NaN /\ df.rows[i].B # NaN}

RECURSIVE CellSum(_, _)
CellSum(cell, K) ==
    IF K = {} THEN 0
    ELSE LET k == CHOOSE q \in K : TRUE IN cell[k] + CellSum(cell, K \ {k})

TableSum(t) == CellSum(t.cell, t.index \X t.columns)

FrequencyCall ==
    /\ viz.fn = "eda_heatmap_crosstab"
    /\ viz.cols = <<"A", "B", None>>
    /\ ValuesIn(1..Len(df.rows), "A") = {"x", "y"}
    /\ ValuesIn(1..Len(df.rows), "B") = {"p", "q"}

\* C7 as stated: without a value column, for a column A with the values x, y
\* and a column B with the values p, q, the cross-tabulation has exactly 2
\* rows and 2 columns and its cells sum to the number of dataset rows in
\* which both A and B are not null.
C7_TwoByTwo ==
    FrequencyCall =>
        /\ Cardinality(viz.table.index) = 2
        /\ Cardinality(viz.table.columns) = 2
        /\ TableSum(viz.table) = Cardinality(BothGiven)

\* C7 as amended: the rows and columns of the cross-tabulation are the
\* values A and B take in the dataset rows in which both are not null: at
\* most 2 of each, exactly 2 of each when every value of A and of B occurs
\* in such a row; the cells sum to the number of those rows.
C7_RowsWithBothGiven ==
    FrequencyCall =>
        /\ viz.table.index = ValuesIn(BothGiven, "A")
        /\ viz.table.columns = ValuesIn(BothGiven, "B")
        /\ Cardinality(viz.table.index) <= 2
        /\ Cardinality(viz.table.columns) <= 2
        /\ (ValuesIn(BothGiven, "A") = {"x", "y"} /\ ValuesIn(BothGiven, "B") = {"p", "q"})
             => (Cardinality(viz.table.index) = 2 /\ Cardinality(viz.table.columns) = 2)
        /\ TableSum(viz.table) = Cardinality(BothGiven)

C7_Witness ==
    /\ FrequencyCall
    /\ Len(df.rows) = 3
    /\ viz.table.index = {"x", "y"}
    /\ viz.table.columns = {"p", "q"}
    /\ TableSum(viz.table) = 2
    /\ viz.err = None

\* The sum and the number of the values of column c in the rows 1..n whose
\* column g is a.
RECURSIVE GroupTotal(_, _, _, _)
GroupTotal(n, g, a, c) ==
    IF n = 0 THEN [sum |-> 0, n |-> 0]
    ELSE LET rest == GroupTotal(n - 1, g, a, c)
         IN  IF df.rows[n][g] = a
             THEN [sum |-> rest.sum + df.rows[n][c], n |-> rest.n + 1]
             ELSE rest

CategoryColumn == [i \in 1..Len(df.rows) |-> df.rows[i].A]

ValueColumn == [i \in 1..Len(df.rows) |-> df.rows[i].value]

\* C9: eda_bar_plot with default settings draws one bar per category of the
\* categorical column, as high as the mean of the feature column over the
\* rows of the category; for the categories (x, x, y) and the values
\* (10, 20, 30) the bar of x is 15 and the bar of y is 30.
C9_BarIsCategoryMean ==
    (viz.fn = "eda_bar_plot" /\ viz.cols[3] = None) =>
        /\ viz.err = None
        /\ DOMAIN viz.table = ValuesIn(1..Len(df.rows), viz.cols[1])
        /\ \A a \in DOMAIN viz.table :
              /\ viz.table[a] = GroupTotal(Len(df.rows), viz.cols[1], a, viz.cols[2])
              /\ viz.table[a].n > 0
        /\ (viz.cols[1] = "A" /\ CategoryColumn = <<"x", "x", "y">>
                /\ ValueColumn = <<10, 20, 30>>)
             => /\ viz.table["x"].sum = 15 * viz.table["x"].n
                /\ viz.table["y"].sum = 30 * viz.table["y"].n

C9_Witness ==
    /\ viz.fn = "eda_bar_plot"
    /\ viz.cols = <<"A", "value", None>>
    /\ CategoryColumn = <<"x", "x", "y">>
    /\ ValueColumn = <<10, 20, 30>>
    /\ viz.table["x"] = [sum |-> 30, n |-> 2]
    /\ viz.table["y"] = [sum |-> 30, n |-> 1]
    /\ viz.events[Len(viz.events)] = "show"

====
